---- MODULE Spec2Model ----
(***************************************************************************)
(* Bucketed batch scheduler and beam-search decoder of tsf_nmt.            *)
(*                                                                         *)
(*   translate.py : read_data, train (bucket draw), decode_from_stdin,     *)
(*                  gen_sample (beam search)                               *)
(*   nmt_model.py : NMTModel.get_batch                                     *)
(*                                                                         *)
(* Python lists are modelled as TLA+ sequences (1-based); bucket ids and   *)
(* flattened candidate indices keep their Python (0-based) values.         *)
(***************************************************************************)
EXTENDS Integers, Sequences, FiniteSets, TLC

(***************************************************************************)
(* Bounds of the model.                                                    *)
(***************************************************************************)
MaxSentenceLen == 3    \* longest sentence given to the decoder
MaxLines == 2          \* lines available in the corpus files
DrawDen == 3           \* the draw r of random_sample() ranges over j / DrawDen
BatchSize == 2         \* FLAGS.batch_size in training (decoding forces 1)
MaxK == 2              \* largest beam width k given to gen_sample
MaxLen == 3            \* largest maxlen given to gen_sample
MaxSteps == 3          \* training steps followed (the loop itself never ends)
MaxPeriod == 2         \* largest steps_per_checkpoint / steps_per_validation
MaxPatience == 2       \* largest lr_rate_patience / early_stop_patience

(***************************************************************************)
(* Reserved ids of data_utils (vocabulary ids 0..3).                       *)
(***************************************************************************)
PAD_ID == 0
GO_ID == 1
EOS_ID == 2
UNK_ID == 3



VARIABLES
    mode,          \* "train" | "decode" | "decode_file": the branch main() takes
    _buckets,      \* the bucket table, a sequence of <<source_size, target_size>>
    pc,            \* position of the running function
    max_size,      \* read_data's max_size argument (0: no limit)
    counter,       \* read_data: lines read so far
    source_ids,    \* read_data / decode: token ids of the last line read
    target_ids,    \* read_data: target ids of the last line read, EOS appended
    data_set,      \* read_data: per bucket, the list of [source, source_r, target]
    random_number_01,  \* train: numerator j of the draw j / DrawDen
    bucket_id,     \* train / decode: the bucket chosen (0-based), -1 before
    chosen,        \* get_batch: the examples random.choice returned, in order
    batch,         \* get_batch: the batch returned, or NoBatch
    translations   \* decode: history, the number of translations written

\* gen_sample
VARIABLES
    k,             \* beam width
    maxlen,        \* length cap
    voc_size,      \* next_p.shape[1]
    bpc,           \* "idle" | "loop" | "exit" | "done"
    ii,            \* iterations of the for loop begun = calls of f_next
    live_k,
    dead_k,
    hyp_samples,   \* live hypotheses: token sequences
    hyp_scores,    \* their scores
    hyp_states,    \* their decoder states
    sample,        \* finished hypotheses
    sample_score,  \* their scores
    ranks_flat,    \* the flattened candidate indices selected at the last step
    costs,         \* cand_flat[ranks_flat]: the scores of the selected candidates
    hyp_nll,       \* history: per live hypothesis, the sum of -log p of its own tokens
    sample_nll,    \* history: the same for the finished hypotheses
    hyp_greedy,    \* history: per live hypothesis, was every token the most
                   \* probable one of the row f_next returned for its prefix?
    sample_greedy, \* history: the same for the finished hypotheses
    ranks_stable,  \* history: the indices a stable ascending sort selects at the last step
    next_w,        \* the word batch: bos indicator, then the last word of each live hypothesis
    next_state,    \* the decoder-state batch; a state is <<call that returned it, row>>
    ctx,           \* the replicated context of the last call of f_next
    f_next_calls,  \* history: the number of calls of f_next
    hyp_parents,   \* history: per live hypothesis, trans_indices of its last extension
    ret_state      \* history: the state batch the last call of f_next returned

\* train: the scheduler of the training loop
VARIABLES
    steps_per_checkpoint,   \* FLAGS.steps_per_checkpoint
    steps_per_validation,   \* FLAGS.steps_per_validation
    steps_verbosity,        \* FLAGS.steps_verbosity
    lr_rate_patience,       \* FLAGS.lr_rate_patience
    early_stop_patience,    \* FLAGS.early_stop_patience
    learning_rate_decay_factor,  \* the factor, a fraction <<num, den>>
    learning_rate,          \* model.learning_rate, a fraction <<num, den>>
    current_step,
    loss,                   \* interval accumulator, in units of 1 / steps_per_checkpoint
    previous_losses,        \* loss history, same units
    dev_set,                \* read_data(src_dev, tgt_dev)
    total_eval_loss,        \* validation: sum of the eval losses of the last pass
    avg_loss,               \* validation: the value printed, a fraction <<num, den>>
    saves,                  \* history: calls of model.saver.save
    lr_checks,              \* history: evaluations of the decay condition
    es_checks,              \* history: evaluations of the early-stop condition
    validations,            \* history: validation passes completed
    evaluated,              \* history: the dev examples <<bucket, n>> fed in the last pass
    eval_losses,            \* history: the eval_loss of each bucket in the last pass
    forward_only,           \* history: the forward_only argument of the last model.step
    printed,                \* history: did the last step print the verbosity line?
    step_losses,            \* history: the step_loss of every training step
    step_result             \* NMTModel.step called on its own: "" | "ok" | "ValueError"

tvars == <<steps_per_checkpoint, steps_per_validation, steps_verbosity, lr_rate_patience,
           early_stop_patience, learning_rate_decay_factor, learning_rate,
           current_step, loss, previous_losses, dev_set, total_eval_loss, avg_loss,
           saves, lr_checks, es_checks, validations, evaluated, eval_losses,
           forward_only, printed, step_losses, step_result>>

dvars == <<mode, _buckets, pc, max_size, counter, source_ids, target_ids,
           data_set, random_number_01, bucket_id, chosen, batch, translations>>

bvars == <<k, maxlen, voc_size, bpc, ii, live_k, dead_k, hyp_samples, hyp_scores,
           hyp_states, sample, sample_score, ranks_flat, costs, hyp_nll,
           sample_nll, hyp_greedy, sample_greedy, ranks_stable, next_w,
           next_state, ctx, f_next_calls, hyp_parents, ret_state>>

vars == <<dvars, bvars, tvars>>

(***************************************************************************)
(* Helpers on sequences.                                                   *)
(***************************************************************************)
Range(s) == {s[i] : i \in 1..Len(s)}

\* s[::-1]
Reverse(s) == [i \in 1..Len(s) |-> s[Len(s) + 1 - i]]

\* [x] * n  (the empty list when n <= 0)
\* [x] * n, which is the empty list for n <= 0
Repeat(x, n) == IF n <= 0 THEN <<>> ELSE [i \in 1..n |-> x]

RECURSIVE SumSeq(_)
SumSeq(s) == IF s = <<>> THEN 0 ELSE s[1] + SumSeq(Tail(s))

SetMin(S) == CHOOSE x \in S : \A y \in S : x <= y

(***************************************************************************)
(* Bucket tables: scaled-down versions of _buckets, sorted ascending in    *)
(* both dimensions, as the constructor of NMTModel assumes.                *)
(***************************************************************************)
BucketLists ==
    { << <<2, 3>> >>,
      << <<1, 1>>, <<3, 3>> >>,
      << <<2, 2>>, <<3, 4>> >>,
      << <<1, 2>>, <<2, 3>>, <<3, 4>> >> }

\* source lines: the words UNK_ID, UNK_ID + 1, ... (all distinct), any length
SourceLine(n) == [i \in 1..n |-> UNK_ID + i - 1]

SourceLines(n) == {SourceLine(m) : m \in 0..n}

\* the line pairs <<source, target>> a corpus may hold: pairs that fit the
\* first bucket, only a later one, or none; one target holds the id PAD_ID
CorpusLines ==
    { << <<>>, <<>> >>,
      << <<UNK_ID>>, <<UNK_ID>> >>,
      << <<UNK_ID, UNK_ID + 1>>, <<UNK_ID>> >>,
      << <<UNK_ID, UNK_ID + 1>>, <<PAD_ID>> >>,
      << <<UNK_ID, UNK_ID + 1>>, <<UNK_ID, UNK_ID>> >>,
      << <<UNK_ID, UNK_ID + 1, UNK_ID + 2>>, <<UNK_ID>> >>,
      << <<UNK_ID>>, <<UNK_ID, PAD_ID, UNK_ID>> >> }

NoBatch == [encoder_inputs |-> <<>>, encoder_inputs_r |-> <<>>,
            decoder_inputs |-> <<>>, target_weights |-> <<>>]

(***************************************************************************)
(* read_data: the bucket a pair goes to.  The for loop over _buckets with  *)
(* its break: the first bucket, from index i on, that the pair fits.       *)
(* Returns the 0-based bucket id, or -1 when the loop ends without append. *)
(***************************************************************************)
\* mutant of FirstFit: the source bound compared with <= instead of <
RECURSIVE FirstFit_SourceLeq(_, _, _, _)
FirstFit_SourceLeq(bs, i, src, tgt) ==
    IF i > Len(bs) THEN -1
    ELSE IF Len(src) <= bs[i][1] /\ Len(tgt) < bs[i][2] THEN i - 1
    ELSE FirstFit_SourceLeq(bs, i + 1, src, tgt)

RECURSIVE FirstFit(_, _, _, _)
FirstFit(bs, i, src, tgt) ==
    IF i > Len(bs) THEN -1
    ELSE IF Len(src) < bs[i][1] /\ Len(tgt) < bs[i][2] THEN i - 1
    ELSE FirstFit(bs, i + 1, src, tgt)

\* mutant of Example: the reversed copy is not reversed
Example_NoReverse(src, tgt) == <<src, src, tgt>>

\* the triple stored for a pair of lines
Example(src, tgt) == <<src, Reverse(src), tgt>>

\* data_set after the pair (src, tgt) was handled
AppendToBucket(ds, bs, src, tgt) ==
    LET b == FirstFit(bs, 1, src, tgt)
    IN  IF b = -1 THEN ds
        ELSE [ds EXCEPT ![b + 1] = Append(@, Example(src, tgt))]

(***************************************************************************)
(* NMTModel.get_batch.  `picks` holds the examples random.choice returned, *)
(* one per batch column.                                                   *)
(***************************************************************************)
\* encoder_input + [PAD_ID] * (encoder_size - len(encoder_input))
PadEncoder(encoder_input, encoder_size) ==
    encoder_input \o Repeat(PAD_ID, encoder_size - Len(encoder_input))

\* [GO_ID] + decoder_input + [PAD_ID] * (decoder_size - len(decoder_input) - 1)
PadDecoder(decoder_input, decoder_size) ==
    <<GO_ID>> \o decoder_input \o Repeat(PAD_ID, decoder_size - Len(decoder_input) - 1)

\* batch-major re-indexing: row l holds element l of every example
BatchMajor(rows, size, B) ==
    [length_idx \in 1..size |-> [batch_idx \in 1..B |-> rows[batch_idx][length_idx]]]

\* mutant of TargetWeight: the rule for the last timestep is forgotten
TargetWeight_NoLastRule(decoder_input, length_idx, decoder_size) ==
    IF length_idx < decoder_size /\ decoder_input[length_idx + 1] = PAD_ID
    THEN 0 ELSE 1

\* mutant of TargetWeight: the target is not shifted by one
TargetWeight_NoShift(decoder_input, length_idx, decoder_size) ==
    IF length_idx = decoder_size \/ decoder_input[length_idx] = PAD_ID
    THEN 0 ELSE 1

\* the weight of timestep length_idx (1-based) for one padded decoder input
TargetWeight(decoder_input, length_idx, decoder_size) ==
    IF length_idx = decoder_size \/ decoder_input[length_idx + 1] = PAD_ID
    THEN 0 ELSE 1

BatchWeights(decoder_inputs, decoder_size, B) ==
    [length_idx \in 1..decoder_size |->
        [batch_idx \in 1..B |->
            TargetWeight(decoder_inputs[batch_idx], length_idx, decoder_size)]]

get_batch(bs, bid, B, picks) ==
    LET encoder_size == bs[bid + 1][1]
        decoder_size == bs[bid + 1][2]
        encoder_inputs == [b \in 1..B |-> PadEncoder(picks[b][1], encoder_size)]
        encoder_inputs_r == [b \in 1..B |-> PadEncoder(picks[b][2], encoder_size)]
        decoder_inputs == [b \in 1..B |-> PadDecoder(picks[b][3], decoder_size)]
    IN  [encoder_inputs |-> BatchMajor(encoder_inputs, encoder_size, B),
         encoder_inputs_r |-> BatchMajor(encoder_inputs_r, encoder_size, B),
         decoder_inputs |-> BatchMajor(decoder_inputs, decoder_size, B),
         target_weights |-> BatchWeights(decoder_inputs, decoder_size, B)]

(***************************************************************************)
(* train: bucket sizes, the cumulative scale and the draw.                 *)
(* train_buckets_scale[i] = sum(train_bucket_sizes[:i+1]) / total; the     *)
(* comparison scale[i] > r with r = j / DrawDen is made on cross products. *)
(***************************************************************************)
train_bucket_sizes(ds) == [b \in 1..Len(ds) |-> Len(ds[b])]

train_total_size(ds) == SumSeq(train_bucket_sizes(ds))

\* numerator of train_buckets_scale[i] (1-based i)
ScaleNum(ds, i) == SumSeq(SubSeq(train_bucket_sizes(ds), 1, i))

\* mutant of DrawCandidates: scale[i] >= r instead of scale[i] > r
DrawCandidates_Geq(ds, j) ==
    {i - 1 : i \in {x \in 1..Len(ds) : ScaleNum(ds, x) * DrawDen >= j * train_total_size(ds)}}

\* [i for i in xrange(len(scale)) if scale[i] > random_number_01], 0-based
DrawCandidates(ds, j) ==
    {i - 1 : i \in {x \in 1..Len(ds) : ScaleNum(ds, x) * DrawDen > j * train_total_size(ds)}}

\* mutant of DecodeCandidates: >= instead of >
DecodeCandidates_Geq(bs, token_ids) ==
    {b - 1 : b \in {x \in 1..Len(bs) : bs[x][1] >= Len(token_ids)}}

\* decode: [b for b in xrange(len(_buckets)) if _buckets[b][0] > len(token_ids)]
DecodeCandidates(bs, token_ids) ==
    {b - 1 : b \in {x \in 1..Len(bs) : bs[x][1] > Len(token_ids)}}

\* model.batch_size: FLAGS.batch_size, or 1 in either decoding mode
BatchSizeOf(m) == IF m \in {"decode", "decode_file"} THEN 1 ELSE BatchSize


(***************************************************************************)
(* gen_sample: beam search.                                                *)
(*                                                                         *)
(* f_next is an arbitrary callback: at each call it returns one row of     *)
(* next-token probabilities per live hypothesis.  A row is modelled by its *)
(* -log p levels: uniform (every word at level 1) or peaked at one word    *)
(* (that word at level 0, the others at level 2).  Scores are sums of      *)
(* levels.  Words are 0..voc_size-1; word 0 ends a hypothesis.             *)
(***************************************************************************)
UniformRow(V) == [w \in 1..V |-> 1]

PeakedRow(V, x) == [w \in 1..V |-> IF w = x THEN 0 ELSE 2]

NegLogRows(V) == {UniformRow(V)} \cup {PeakedRow(V, x) : x \in 1..V}

\* next_w = -1 * numpy.ones((1,)): the bos indicator
BosIndicator == <<-1>>

\* ret = f_init(x): the initial decoder state (one row) and the encoder
\* context of the one source sentence (one row)
InitialState == << <<0, 0>> >>

ctx0 == <<"ctx0">>

\* mutant of Tile: the context is not replicated
Tile_Once(rows, n) == rows

\* numpy.tile(rows, [n, 1]): the rows, n times over
RECURSIVE Tile(_, _)
Tile(rows, n) == IF n <= 0 THEN <<>> ELSE rows \o Tile(rows, n - 1)

\* ret[2] of call number call for a batch of n rows: one new state per row
ReturnedStates(call, n) == [r \in 1..n |-> <<call, r - 1>>]

\* ret[1] of the call: per row, the first of the most probable words
ReturnedWords(P) ==
    [r \in 1..Len(P) |->
        (CHOOSE w \in 1..Len(P[r]) :
            /\ \A v \in 1..Len(P[r]) : P[r][w] <= P[r][v]
            /\ \A v \in 1..(w - 1) : P[r][v] > P[r][w]) - 1]

\* [w[-1] for w in hyp_samples]
LastWords(samples) == [x \in 1..Len(samples) |-> samples[x][Len(samples[x])]]

\* the vocabulary sizes next_p.shape[1] tried
VocSizes == {1, 2, 3}

\* cand_scores = hyp_scores[:, None] - numpy.log(next_p), flattened: a
\* function of the flattened index f = parent * voc_size + word (0-based)
cand_flat(scores, P, V) ==
    [f \in 0..(Len(scores) * V - 1) |-> scores[(f \div V) + 1] + P[(f \div V) + 1][(f % V) + 1]]

\* the flattened indices of lowest score among those of S
Lowest(cand, S) == {f \in S : \A g \in S : cand[f] <= cand[g]}

\* used by the mutant below: the flattened indices of highest score
Highest(cand, S) == {f \in S : \A g \in S : cand[f] >= cand[g]}

\* mutant of argsort_from: sorts descending
RECURSIVE argsort_from_Descending(_, _, _)
argsort_from_Descending(cand, S, n) ==
    IF n <= 0 \/ S = {} THEN {<<>>}
    ELSE UNION {{<<f>> \o r : r \in argsort_from_Descending(cand, S \ {f}, n - 1)} :
                  f \in Highest(cand, S)}

\* the possible values of cand.argsort()[:n], restricted to the indices S
\* not yet placed.  argsort() sorts ascending with numpy's default kind
\* (quicksort), which is not stable: which of several equal scores comes
\* first is not fixed by the call, so every order of ties is a possible
\* outcome.  A slice bound beyond the end returns the whole array.
RECURSIVE argsort_from(_, _, _)
argsort_from(cand, S, n) ==
    IF n <= 0 \/ S = {} THEN {<<>>}
    ELSE UNION {{<<f>> \o r : r \in argsort_from(cand, S \ {f}, n - 1)} :
                  f \in Lowest(cand, S)}

\* the first n indices in ascending score, equal scores in ascending index:
\* what a stable sort returns
RECURSIVE stable_argsort_from(_, _, _)
stable_argsort_from(cand, S, n) ==
    IF n <= 0 \/ S = {} THEN <<>>
    ELSE LET f == SetMin(Lowest(cand, S))
         IN  <<f>> \o stable_argsort_from(cand, S \ {f}, n - 1)

\* mutant of SliceLen: the finished hypotheses are not deducted
SliceLen_IgnoreDead(beam, dead) == beam

\* the slice bound k - dead_k of ranks_flat
SliceLen(beam, dead) == beam - dead

\* mutant of InRange: one iteration too many
InRange_OneMore(i, n) == i <= n

\* for ii in xrange(maxlen): is there an iteration left after i iterations?
InRange(i, n) == i < n

\* mutant of SelectIdx: the first token is tested instead of the last
RECURSIVE SelectIdx_FirstToken(_, _, _)
SelectIdx_FirstToken(samples, idx, ended) ==
    IF idx > Len(samples) THEN <<>>
    ELSE IF (samples[idx][1] = 0) = ended
         THEN <<idx>> \o SelectIdx_FirstToken(samples, idx + 1, ended)
         ELSE SelectIdx_FirstToken(samples, idx + 1, ended)

\* the indices idx (in order) of new hypotheses that ended / did not end
RECURSIVE SelectIdx(_, _, _)
SelectIdx(samples, idx, ended) ==
    IF idx > Len(samples) THEN <<>>
    ELSE IF (samples[idx][Len(samples[idx])] = 0) = ended
         THEN <<idx>> \o SelectIdx(samples, idx + 1, ended)
         ELSE SelectIdx(samples, idx + 1, ended)

\* new_hyp_scores[idx] = copy.copy(costs[ti]): costs is indexed by the
\* parent index ti (0-based), not by the candidate's own position idx
ExtendedScore(cs, idx, ti) == cs[ti + 1]

DataIdle ==
    /\ mode = "beam"
    /\ _buckets = <<>>
    /\ pc = "idle"
    /\ max_size = 0
    /\ counter = 0
    /\ source_ids = <<>>
    /\ target_ids = <<>>
    /\ data_set = <<>>
    /\ random_number_01 = 0
    /\ bucket_id = -1
    /\ chosen = <<>>
    /\ batch = NoBatch
    /\ translations = 0

BeamIdle ==
    /\ k = 0
    /\ maxlen = 0
    /\ voc_size = 0
    /\ bpc = "idle"
    /\ ii = 0
    /\ live_k = 0
    /\ dead_k = 0
    /\ hyp_samples = <<>>
    /\ hyp_scores = <<>>
    /\ hyp_states = <<>>
    /\ sample = <<>>
    /\ sample_score = <<>>
    /\ ranks_flat = <<>>
    /\ costs = <<>>
    /\ hyp_nll = <<>>
    /\ sample_nll = <<>>
    /\ hyp_greedy = <<>>
    /\ sample_greedy = <<>>
    /\ ranks_stable = <<>>
    /\ next_w = <<>>
    /\ next_state = <<>>
    /\ ctx = <<>>
    /\ f_next_calls = 0
    /\ hyp_parents = <<>>
    /\ ret_state = <<>>

(***************************************************************************)
(* NMTModel.step: the size check made before anything is fed to the model. *)
(* b is the batch handed over; the result is "ValueError" or "ok".         *)
(***************************************************************************)
\* mutant of step: the length of target_weights is not checked
step_NoWeightCheck(bs, bid, b) ==
    IF Len(b.encoder_inputs) # bs[bid + 1][1] THEN "ValueError"
    ELSE IF Len(b.decoder_inputs) # bs[bid + 1][2] THEN "ValueError"
    ELSE "ok"

step(bs, bid, b) ==
    IF Len(b.encoder_inputs) # bs[bid + 1][1] THEN "ValueError"
    ELSE IF Len(b.decoder_inputs) # bs[bid + 1][2] THEN "ValueError"
    ELSE IF Len(b.target_weights) # bs[bid + 1][2] THEN "ValueError"
    ELSE "ok"

TrainIdle ==
    /\ steps_per_checkpoint = 0
    /\ steps_per_validation = 0
    /\ steps_verbosity = 0
    /\ lr_rate_patience = 0
    /\ early_stop_patience = 0
    /\ learning_rate_decay_factor = <<1, 1>>
    /\ learning_rate = <<1, 1>>
    /\ current_step = 0
    /\ loss = 0
    /\ previous_losses = <<>>
    /\ dev_set = <<>>
    /\ total_eval_loss = 0
    /\ avg_loss = <<0, 1>>
    /\ saves = 0
    /\ lr_checks = 0
    /\ es_checks = 0
    /\ validations = 0
    /\ evaluated = {}
    /\ eval_losses = <<>>
    /\ forward_only = FALSE
    /\ printed = FALSE
    /\ step_losses = <<>>
    /\ step_result = ""

(***************************************************************************)
(* Initial state: main() dispatches on the flags; nothing was read yet.    *)
(***************************************************************************)
Init ==
    /\ BeamIdle
    /\ TrainIdle
    /\ mode \in {"train", "decode", "decode_file"}
    /\ _buckets \in BucketLists
    /\ pc = CASE mode = "train" -> "read_data"
               [] mode = "decode" -> "decode"
               [] OTHER -> "decode_file"
    /\ max_size \in IF mode = "train" THEN {0, 1} ELSE {0}
    /\ counter = 0
    /\ source_ids = <<>>
    /\ target_ids = <<>>
    /\ data_set = [b \in 1..Len(_buckets) |-> <<>>]
    /\ random_number_01 = 0
    /\ bucket_id = -1
    /\ chosen = <<>>
    /\ batch = NoBatch
    /\ translations = 0

(***************************************************************************)
(* read_data, one iteration of the while loop: a line pair is read,        *)
(* EOS is appended to the target, the pair goes to the first bucket it     *)
(* fits (or to none).                                                      *)
(***************************************************************************)
ReadLine ==
    /\ pc = "read_data"
    /\ counter < MaxLines
    /\ max_size = 0 \/ counter < max_size
    /\ \E line \in CorpusLines :
          /\ source_ids' = line[1]
          /\ target_ids' = Append(line[2], EOS_ID)
          /\ data_set' = AppendToBucket(data_set, _buckets, source_ids', target_ids')
    /\ counter' = counter + 1
    /\ UNCHANGED <<translations, mode, _buckets, pc, max_size, random_number_01, bucket_id, chosen, batch>>
    /\ UNCHANGED bvars
    /\ UNCHANGED tvars

\* the loop ends (end of file or max_size reached) and train() computes
\* the bucket scale, which divides by the total size.  The training loop
\* that starts then is the subject of SpecTrain.
ReadDone ==
    /\ pc = "read_data"
    /\ pc' = IF train_total_size(data_set) = 0 THEN "ZeroDivisionError" ELSE "scaled"
    /\ UNCHANGED <<translations, mode, _buckets, max_size, counter, source_ids, target_ids,
                   data_set, random_number_01, bucket_id, chosen, batch>>
    /\ UNCHANGED bvars
    /\ UNCHANGED tvars

\* the paths decode_from_file may be called with: '' (the call of main(),
\* translate.py:479), which names no file, and the path of a readable file
FilePaths == {"", "source.txt"}

(***************************************************************************)
(* decode_from_file(file_path) up to the first readline of the source      *)
(* file: FLAGS.vocab_file is read, a flag translate.py does not define     *)
(* (AttributeError unless another module defines it); then the file is     *)
(* opened and its first line read, which fails for the path '' that main() *)
(* passes (IOError), so that main()'s own call never enters the loop over  *)
(* the sentences; called with the path of a readable file, the function    *)
(* enters it.                                                              *)
(***************************************************************************)
DecodeFileOpen ==
    /\ pc = "decode_file"
    /\ \E vocab_file_defined \in BOOLEAN : \E file_path \in FilePaths :
          pc' = IF ~vocab_file_defined THEN "AttributeError"
                ELSE IF file_path = "" THEN "IOError"
                ELSE "decode"
    /\ UNCHANGED <<translations, mode, _buckets, max_size, counter, source_ids, target_ids,
                   data_set, random_number_01, bucket_id, chosen, batch>>
    /\ UNCHANGED bvars
    /\ UNCHANGED tvars

(***************************************************************************)
(* decode_from_stdin and decode_from_file, one sentence of at most         *)
(* MaxLines: the two loop bodies are the same statements (the translation  *)
(* goes to stdout in one, to the .trans file in the other): bucket choice, *)
(* the 1-element batch {bucket_id: [(token_ids, token_ids[::-1], [])]},    *)
(* the forward-only model.step, the translation written.  An exception     *)
(* leaves the loop and the function.                                       *)
(***************************************************************************)
DecodeSentence ==
    /\ pc = "decode"
    /\ translations < MaxLines
    /\ \E token_ids \in SourceLines(MaxSentenceLen) :
          /\ source_ids' = token_ids
          /\ IF DecodeCandidates(_buckets, token_ids) = {}
             THEN /\ pc' = "ValueError"     \* min() of an empty list
                  /\ UNCHANGED <<bucket_id, chosen, batch, translations>>
             ELSE /\ bucket_id' = SetMin(DecodeCandidates(_buckets, token_ids))
                  /\ chosen' = <<Example(token_ids, <<>>)>>
                  /\ batch' = get_batch(_buckets, bucket_id', BatchSizeOf(mode), chosen')
                  /\ IF step(_buckets, bucket_id', batch') = "ValueError"
                     THEN /\ pc' = "ValueError"
                          /\ UNCHANGED translations
                     ELSE /\ translations' = translations + 1
                          /\ pc' = "decode"
    /\ UNCHANGED <<mode, _buckets, max_size, counter, target_ids, data_set,
                   random_number_01>>
    /\ UNCHANGED bvars
    /\ UNCHANGED tvars

Next ==
    \/ ReadLine
    \/ ReadDone
    \/ DecodeSentence
    \/ DecodeFileOpen

Spec == Init /\ [][Next]_vars

(***************************************************************************)
(* gen_sample(f_init, f_next, x, k, maxlen): state at the top of the loop. *)
(***************************************************************************)
BeamInit ==
    /\ DataIdle
    /\ TrainIdle
    /\ k \in 1..MaxK
    /\ maxlen \in 1..MaxLen
    /\ voc_size \in VocSizes
    /\ bpc = "loop"
    /\ ii = 0
    /\ live_k = 1
    /\ dead_k = 0
    /\ hyp_samples = << <<>> >>
    /\ hyp_scores = <<0>>
    /\ hyp_states = <<>>
    /\ sample = <<>>
    /\ sample_score = <<>>
    /\ ranks_flat = <<>>
    /\ costs = <<>>
    /\ hyp_nll = <<0>>
    /\ sample_nll = <<>>
    /\ hyp_greedy = <<TRUE>>
    /\ sample_greedy = <<>>
    /\ ranks_stable = <<>>
    /\ next_w = BosIndicator
    /\ next_state = InitialState
    /\ ctx = <<>>
    /\ f_next_calls = 0
    /\ hyp_parents = <<>>
    /\ ret_state = <<>>

(***************************************************************************)
(* One iteration of the for loop: f_next is called, the candidates are     *)
(* ranked, the selected ones extend their parents, and the new hypotheses  *)
(* are split into finished (last word 0) and live.                         *)
(***************************************************************************)
BeamStep ==
    /\ bpc = "loop"
    /\ InRange(ii, maxlen)
    /\ \E P \in [1..live_k -> NegLogRows(voc_size)] :
       \E ranks \in argsort_from(cand_flat(hyp_scores, P, voc_size),
                                 0..(live_k * voc_size - 1), SliceLen(k, dead_k)) :
          LET cand == cand_flat(hyp_scores, P, voc_size)
              inps == [next_w |-> next_w, ctx |-> Tile(ctx0, live_k),
                       next_state |-> next_state]
              ret == [next_p |-> P, next_w |-> ReturnedWords(P),
                      next_state |-> ReturnedStates(ii + 1, Len(inps.next_state))]
              n == Len(ranks)
              trans_indices == [idx \in 1..n |-> ranks[idx] \div voc_size]
              word_indices == [idx \in 1..n |-> ranks[idx] % voc_size]
              new_costs == [idx \in 1..n |-> cand[ranks[idx]]]
              new_hyp_samples ==
                  [idx \in 1..n |-> Append(hyp_samples[trans_indices[idx] + 1], word_indices[idx])]
              new_hyp_scores ==
                  [idx \in 1..n |-> ExtendedScore(new_costs, idx, trans_indices[idx])]
              new_hyp_states == [idx \in 1..n |-> ret.next_state[trans_indices[idx] + 1]]
              new_nll ==
                  [idx \in 1..n |-> hyp_nll[trans_indices[idx] + 1]
                                      + P[trans_indices[idx] + 1][word_indices[idx] + 1]]
              new_greedy ==
                  [idx \in 1..n |->
                      /\ hyp_greedy[trans_indices[idx] + 1]
                      /\ \A w \in 1..voc_size :
                            P[trans_indices[idx] + 1][word_indices[idx] + 1]
                               <= P[trans_indices[idx] + 1][w]]
              ended == SelectIdx(new_hyp_samples, 1, TRUE)
              alive == SelectIdx(new_hyp_samples, 1, FALSE)
          IN  /\ ranks_flat' = ranks
              /\ ranks_stable' = stable_argsort_from(cand, DOMAIN cand, SliceLen(k, dead_k))
              /\ costs' = new_costs
              /\ sample' = sample \o [x \in 1..Len(ended) |-> new_hyp_samples[ended[x]]]
              /\ sample_score' = sample_score \o [x \in 1..Len(ended) |-> new_hyp_scores[ended[x]]]
              /\ sample_nll' = sample_nll \o [x \in 1..Len(ended) |-> new_nll[ended[x]]]
              /\ sample_greedy' = sample_greedy \o [x \in 1..Len(ended) |-> new_greedy[ended[x]]]
              /\ dead_k' = dead_k + Len(ended)
              /\ hyp_samples' = [x \in 1..Len(alive) |-> new_hyp_samples[alive[x]]]
              /\ hyp_scores' = [x \in 1..Len(alive) |-> new_hyp_scores[alive[x]]]
              /\ hyp_states' = [x \in 1..Len(alive) |-> new_hyp_states[alive[x]]]
              /\ hyp_nll' = [x \in 1..Len(alive) |-> new_nll[alive[x]]]
              /\ hyp_greedy' = [x \in 1..Len(alive) |-> new_greedy[alive[x]]]
              /\ live_k' = Len(alive)
              /\ bpc' = IF Len(alive) < 1 \/ dead_k + Len(ended) >= k THEN "exit" ELSE "loop"
              /\ ctx' = inps.ctx
              /\ f_next_calls' = f_next_calls + 1
              /\ ret_state' = ret.next_state
              /\ hyp_parents' = [x \in 1..Len(alive) |-> trans_indices[alive[x]]]
              /\ IF bpc' = "exit"
                 THEN /\ next_w' = ret.next_w
                      /\ next_state' = ret.next_state
                 ELSE /\ next_w' = LastWords(hyp_samples')
                      /\ next_state' = hyp_states'
    /\ ii' = ii + 1
    /\ UNCHANGED <<k, maxlen, voc_size>>
    /\ UNCHANGED dvars
    /\ UNCHANGED tvars

(***************************************************************************)
(* After the loop (break, or maxlen iterations done): every remaining live *)
(* hypothesis is dumped into sample, and the function returns.             *)
(***************************************************************************)
BeamReturn ==
    /\ bpc = "exit" \/ (bpc = "loop" /\ ~InRange(ii, maxlen))
    /\ IF live_k > 0
       THEN /\ sample' = sample \o SubSeq(hyp_samples, 1, live_k)
            /\ sample_score' = sample_score \o SubSeq(hyp_scores, 1, live_k)
            /\ sample_nll' = sample_nll \o SubSeq(hyp_nll, 1, live_k)
            /\ sample_greedy' = sample_greedy \o SubSeq(hyp_greedy, 1, live_k)
       ELSE UNCHANGED <<sample, sample_score, sample_nll, sample_greedy>>
    /\ bpc' = "done"
    /\ UNCHANGED <<k, maxlen, voc_size, ii, live_k, dead_k, hyp_samples, hyp_scores,
                   hyp_states, ranks_flat, costs, hyp_nll, hyp_greedy, ranks_stable,
                   next_w, next_state, ctx, f_next_calls, hyp_parents, ret_state>>
    /\ UNCHANGED dvars
    /\ UNCHANGED tvars

BeamNext ==
    \/ BeamStep
    \/ BeamReturn

SpecBeam == BeamInit /\ [][BeamNext]_vars

(***************************************************************************)
(* train(): the scheduler of the training loop.                            *)
(*                                                                         *)
(* loss += step_loss / steps_per_checkpoint: loss and the entries of       *)
(* previous_losses are kept in units of 1 / steps_per_checkpoint, which    *)
(* leaves every comparison between them (and with 0) as it is.  The        *)
(* learning rate is an exact fraction <<num, den>>.                        *)
(***************************************************************************)
\* the step losses model.step may return: the loss is a softmax
\* cross-entropy weighted by the target weights (0 or 1), never negative
LossValues == {0, 1}

\* FLAGS.learning_rate (0.5) and FLAGS.learning_rate_decay_factor (0.99)
InitialLearningRate == <<1, 2>>

DecayFactor == <<99, 100>>

\* the learning rates model.saver.restore may bring back from a checkpoint
\* of train_dir: that of an earlier run with the same flags after one
\* decay, and that of an earlier run started with --learning_rate 1.0
RestoredLearningRates == {<<99, 200>>, <<1, 1>>}

\* create_model: fresh parameters (FLAGS.learning_rate), or those of the
\* checkpoint found in train_dir
LearningRates == {InitialLearningRate} \cup RestoredLearningRates

\* the values of FLAGS.steps_verbosity tried: a print at every third step,
\* a period that differs from those of the checkpoint and the validation
Verbosities == {3}

\* the values of FLAGS.steps_per_checkpoint and FLAGS.steps_per_validation
\* tried: every step, and the longest period
Periods == {1, MaxPeriod}

\* the values of FLAGS.lr_rate_patience and FLAGS.early_stop_patience tried
Patiences == {1, MaxPatience}

\* max(s) of a non-empty list
RECURSIVE SeqMax(_)
SeqMax(s) ==
    IF Len(s) = 1 THEN s[1]
    ELSE LET m == SeqMax(Tail(s)) IN IF s[1] >= m THEN s[1] ELSE m

\* s[-n:] for n >= 1
LastN(s, n) == SubSeq(s, IF Len(s) > n THEN Len(s) - n + 1 ELSE 1, Len(s))

\* mutant of WorseThanHistory: >= instead of >
WorseThanHistory_Geq(l, history, prevs) ==
    Len(history) > prevs - 1 /\ l >= SeqMax(LastN(history, prevs))

\* len(previous_losses) > (prevs-1) and loss > max(previous_losses[-prevs:])
WorseThanHistory(l, history, prevs) ==
    Len(history) > prevs - 1 /\ l > SeqMax(LastN(history, prevs))

\* mutant of EarlyStop: >= instead of >
EarlyStop_Geq(l, history, prevs) ==
    Len(history) > prevs - 1 /\ l >= SeqMax(LastN(history, prevs))

\* the early-stop test: len(previous_losses) > (early_stop_patience-1) and
\* loss > max(previous_losses[-early_stop_patience:])
EarlyStop(l, history, prevs) ==
    Len(history) > prevs - 1 /\ l > SeqMax(LastN(history, prevs))

\* mutant of IntervalReset: the accumulator is not reset before the check
IntervalReset_Keep(l) == l

\* step_time, loss = 0.0, 0.0
IntervalReset(l) == 0

\* learning_rate_decay_op: learning_rate * learning_rate_decay_factor
Decay(lr, factor) == <<lr[1] * factor[1], lr[2] * factor[2]>>

\* mutant of Due: the step counter is compared with the period itself
Due_Once(n, period) == n = period

\* current_step % FLAGS.steps_per_... == 0
Due(n, period) == n % period = 0

\* read_data over the lines of a corpus, from the data set ds on
RECURSIVE read_data(_, _, _)
read_data(bs, lines, ds) ==
    IF lines = <<>> THEN ds
    ELSE read_data(bs, Tail(lines),
                   AppendToBucket(ds, bs, lines[1][1], Append(lines[1][2], EOS_ID)))

\* [[] for _ in _buckets]
EmptyDataSet(bs) == [b \in 1..Len(bs) |-> <<>>]

\* the corpora the scheduler is run on: bucket table, training lines, dev
\* lines.  Dev sets: one bucket of two examples; every bucket populated;
\* a bucket left empty (twice).  Training populations: [1], [1, 1],
\* [0, 1], [1, 0, 1].
TrainSetups ==
    { [buckets |-> << <<2, 3>> >>,
       train |-> << << <<>>, <<>> >> >>,
       dev |-> << << <<>>, <<>> >>, << <<UNK_ID>>, <<UNK_ID>> >> >>],
      [buckets |-> << <<2, 2>>, <<3, 4>> >>,
       train |-> << << <<>>, <<>> >>, << <<UNK_ID, UNK_ID + 1>>, <<UNK_ID>> >> >>,
       dev |-> << << <<>>, <<>> >>, << <<UNK_ID, UNK_ID + 1>>, <<UNK_ID>> >> >>],
      [buckets |-> << <<2, 2>>, <<3, 4>> >>,
       train |-> << << <<UNK_ID, UNK_ID + 1>>, <<UNK_ID>> >> >>,
       dev |-> << << <<>>, <<>> >> >>],
      [buckets |-> << <<1, 2>>, <<2, 3>>, <<3, 4>> >>,
       train |-> << << <<>>, <<>> >>, << <<UNK_ID, UNK_ID + 1>>, <<UNK_ID>> >> >>,
       dev |-> << << <<>>, <<>> >>, << <<UNK_ID, UNK_ID + 1>>, <<UNK_ID>> >> >>] }

\* the choices random.choice can make in one pass over the buckets of ds:
\* per bucket, B positions of that bucket
RECURSIVE MaxBucketLen(_)
MaxBucketLen(ds) ==
    IF ds = <<>> THEN 0
    ELSE LET m == MaxBucketLen(Tail(ds)) IN IF Len(ds[1]) >= m THEN Len(ds[1]) ELSE m

PicksOf(ds, B) ==
    {p \in [1..Len(ds) -> [1..B -> 1..MaxBucketLen(ds)]] :
        \A b \in 1..Len(ds) : \A x \in 1..B : p[b][x] <= Len(ds[b])}

(***************************************************************************)
(* train() after create_model and both read_data calls: the parameters are *)
(* fresh or restored, dev_set and train_set are read, the bucket scale is  *)
(* computed, the loop is about to start.                                   *)
(***************************************************************************)
TrainInit ==
    /\ BeamIdle
    /\ mode = "train"
    /\ \E setup \in TrainSetups :
          /\ _buckets = setup.buckets
          /\ dev_set = read_data(setup.buckets, setup.dev, EmptyDataSet(setup.buckets))
          /\ data_set = read_data(setup.buckets, setup.train, EmptyDataSet(setup.buckets))
    /\ pc = "train"
    /\ max_size = 0
    /\ counter = 0
    /\ source_ids = <<>>
    /\ target_ids = <<>>
    /\ random_number_01 = 0
    /\ bucket_id = -1
    /\ chosen = <<>>
    /\ batch = NoBatch
    /\ translations = 0
    /\ steps_per_checkpoint \in Periods
    /\ steps_per_validation \in Periods
    /\ steps_verbosity \in Verbosities
    /\ lr_rate_patience \in Patiences
    /\ early_stop_patience \in Patiences
    /\ learning_rate_decay_factor = DecayFactor
    /\ learning_rate \in LearningRates
    /\ current_step = 0
    /\ loss = 0
    /\ previous_losses = <<>>
    /\ total_eval_loss = 0
    /\ avg_loss = <<0, 1>>
    /\ saves = 0
    /\ lr_checks = 0
    /\ es_checks = 0
    /\ validations = 0
    /\ evaluated = {}
    /\ eval_losses = <<>>
    /\ forward_only = FALSE
    /\ printed = FALSE
    /\ step_losses = <<>>
    /\ step_result = ""

(***************************************************************************)
(* The loop body up to the checkpoint test: draw, get_batch on train_set,  *)
(* model.step (forward and backward), the accumulators, the verbosity      *)
(* print (which assigns nothing).                                          *)
(***************************************************************************)
TrainStep ==
    /\ pc = "train"
    /\ current_step < MaxSteps
    /\ \E j \in 0..(DrawDen - 1) :
          /\ random_number_01' = j
          /\ IF DrawCandidates(data_set, j) = {}
             THEN /\ pc' = "ValueError"     \* min() of an empty list
                  /\ UNCHANGED <<bucket_id, chosen, batch, loss, current_step, forward_only,
                                 printed, step_losses>>
             ELSE /\ bucket_id' = SetMin(DrawCandidates(data_set, j))
                  /\ LET d == data_set[bucket_id' + 1]
                         B == BatchSizeOf(mode)
                     IN  IF d = <<>>
                         THEN /\ pc' = "IndexError"   \* random.choice of an empty list
                              /\ UNCHANGED <<chosen, batch, loss, current_step, forward_only,
                                             printed, step_losses>>
                         ELSE \E idx \in [1..B -> 1..Len(d)] : \E step_loss \in LossValues :
                                 /\ chosen' = [b \in 1..B |-> d[idx[b]]]
                                 /\ batch' = get_batch(_buckets, bucket_id', B, chosen')
                                 /\ IF step(_buckets, bucket_id', batch') = "ValueError"
                                    THEN /\ pc' = "ValueError"
                                         /\ UNCHANGED <<loss, current_step, forward_only,
                                                        printed, step_losses>>
                                    ELSE /\ forward_only' = FALSE
                                         /\ loss' = loss + step_loss
                                         /\ current_step' = current_step + 1
                                         /\ step_losses' = Append(step_losses, step_loss)
                                         /\ printed' = Due(current_step', steps_verbosity)
                                         /\ pc' = "checkpoint"
    /\ UNCHANGED <<translations, mode, _buckets, max_size, counter, source_ids, target_ids, data_set>>
    /\ UNCHANGED <<steps_per_checkpoint, steps_per_validation, steps_verbosity,
                   lr_rate_patience,
                   early_stop_patience, learning_rate_decay_factor, learning_rate,
                   previous_losses, dev_set, total_eval_loss, avg_loss, saves,
                   lr_checks, es_checks, validations, evaluated, eval_losses,
                   step_result>>
    /\ UNCHANGED bvars

(***************************************************************************)
(* if current_step % steps_per_checkpoint == 0: the decay check, the       *)
(* history append, the save, the reset, the early-stop check (break).      *)
(***************************************************************************)
Checkpoint ==
    /\ pc = "checkpoint"
    /\ IF Due(current_step, steps_per_checkpoint)
       THEN LET history == Append(previous_losses, loss)
                reset == IntervalReset(loss)
            IN  /\ learning_rate' =
                      IF WorseThanHistory(loss, previous_losses, lr_rate_patience)
                      THEN Decay(learning_rate, learning_rate_decay_factor)
                      ELSE learning_rate
                /\ lr_checks' = lr_checks + 1
                /\ previous_losses' = history
                /\ saves' = saves + 1
                /\ loss' = reset
                /\ es_checks' = es_checks + 1
                /\ pc' = IF EarlyStop(reset, history, early_stop_patience)
                         THEN "EarlyStopped"
                         ELSE "validation"
       ELSE /\ pc' = "validation"
            /\ UNCHANGED <<learning_rate, lr_checks, previous_losses, saves, loss, es_checks>>
    /\ UNCHANGED <<translations, mode, _buckets, max_size, counter, source_ids, target_ids, data_set,
                   random_number_01, bucket_id, chosen, batch>>
    /\ UNCHANGED <<steps_per_checkpoint, steps_per_validation, steps_verbosity,
                   lr_rate_patience,
                   early_stop_patience, learning_rate_decay_factor, current_step,
                   dev_set, total_eval_loss, avg_loss, validations, evaluated,
                   eval_losses, forward_only, printed, step_losses, step_result>>
    /\ UNCHANGED bvars

(***************************************************************************)
(* if current_step % steps_per_validation == 0: total_eval_loss is reset,  *)
(* then for every bucket id in turn one get_batch on dev_set and one       *)
(* forward-only model.step, whose loss is added; the average of the eval   *)
(* losses over the buckets is printed.  The loop then goes on.  An empty   *)
(* dev bucket (IndexError) or a refused batch (ValueError) ends the pass   *)
(* at that bucket, the buckets before it having been evaluated.            *)
(***************************************************************************)
Validation ==
    /\ pc = "validation"
    /\ IF Due(current_step, steps_per_validation)
       THEN LET n == Len(_buckets)
                B == BatchSizeOf(mode)
                empties == {b \in 1..n : dev_set[b] = <<>>}
                \* the buckets get_batch returns a batch for
                m == IF empties = {} THEN n ELSE SetMin(empties) - 1
            IN  \E picks \in PicksOf(SubSeq(dev_set, 1, m), B) :
                \E el \in [1..m -> LossValues] :
                    LET batches == [b \in 1..m |->
                            get_batch(_buckets, b - 1, B,
                                      [x \in 1..B |-> dev_set[b][picks[b][x]]])]
                    IN  \* the buckets whose batch step refuses
                        \E rejected \in {{b \in 1..m :
                                step(_buckets, b - 1, batches[b]) = "ValueError"}} :
                        \* the last bucket a batch was built for, and the
                        \* number of buckets whose step returned a loss
                        \E built \in {IF rejected = {} THEN m ELSE SetMin(rejected)} :
                        \E stepped \in {IF rejected = {} THEN m ELSE SetMin(rejected) - 1} :
                        \E losses \in {SubSeq(el, 1, stepped)} :
                            /\ bucket_id' = IF rejected # {} THEN built - 1
                                            ELSE IF empties # {} THEN m
                                            ELSE n - 1
                            /\ IF built >= 1
                               THEN /\ chosen' = [x \in 1..B |->
                                                    dev_set[built][picks[built][x]]]
                                    /\ batch' = batches[built]
                                    /\ forward_only' = TRUE
                               ELSE UNCHANGED <<chosen, batch, forward_only>>
                            /\ eval_losses' = losses
                            /\ total_eval_loss' = SumSeq(losses)
                            /\ evaluated' =
                                  {<<b, picks[b][x]>> : b \in 1..stepped, x \in 1..B}
                            /\ IF rejected # {}
                               THEN /\ pc' = "ValueError"
                                    /\ UNCHANGED <<avg_loss, validations>>
                               ELSE IF empties # {}
                               THEN /\ pc' = "IndexError"   \* random.choice of an empty list
                                    /\ UNCHANGED <<avg_loss, validations>>
                               ELSE /\ avg_loss' = <<SumSeq(losses), n>>
                                    /\ validations' = validations + 1
                                    /\ pc' = "train"
       ELSE /\ pc' = "train"
            /\ UNCHANGED <<bucket_id, chosen, batch, total_eval_loss, avg_loss, validations,
                           evaluated, eval_losses, forward_only>>
    /\ UNCHANGED <<translations, mode, _buckets, max_size, counter, source_ids, target_ids, data_set,
                   random_number_01>>
    /\ UNCHANGED <<steps_per_checkpoint, steps_per_validation, steps_verbosity,
                   lr_rate_patience,
                   early_stop_patience, learning_rate_decay_factor, learning_rate,
                   current_step, loss, previous_losses, dev_set, saves, lr_checks,
                   es_checks, printed, step_losses, step_result>>
    /\ UNCHANGED bvars

TrainNext ==
    \/ TrainStep
    \/ Checkpoint
    \/ Validation

SpecTrain == TrainInit /\ [][TrainNext]_vars

(***************************************************************************)
(* NMTModel.get_batch and NMTModel.step called on their own, with any      *)
(* data: get_batch with a bucket id and an example of any length (batch    *)
(* size 1), then step with any bucket id and lists of any length.          *)
(***************************************************************************)
\* the examples handed to get_batch: sources and targets of 0 ..
\* MaxSentenceLen + 1 tokens, and a target that holds the id PAD_ID
AnyExamples ==
    {<<src, Reverse(src), tgt>> :
        src \in SourceLines(MaxSentenceLen + 1),
        tgt \in SourceLines(MaxSentenceLen + 1) \cup {<<PAD_ID, UNK_ID, EOS_ID>>}}

\* the lists handed to step: those of batch b, or with the last row of
\* one of them left out
Tamper(b, cut) ==
    LET drop(rows) == SubSeq(rows, 1, Len(rows) - 1)
    IN  CASE cut = "encoder_inputs" -> [b EXCEPT !.encoder_inputs = drop(@)]
          [] cut = "decoder_inputs" -> [b EXCEPT !.decoder_inputs = drop(@)]
          [] cut = "target_weights" -> [b EXCEPT !.target_weights = drop(@)]
          [] OTHER -> b

BatchInit ==
    /\ BeamIdle
    /\ TrainIdle
    /\ mode = "batch"
    /\ _buckets \in BucketLists
    /\ pc = "get_batch"
    /\ max_size = 0
    /\ counter = 0
    /\ source_ids = <<>>
    /\ target_ids = <<>>
    /\ data_set = <<>>
    /\ random_number_01 = 0
    /\ bucket_id = -1
    /\ chosen = <<>>
    /\ batch = NoBatch
    /\ translations = 0

\* get_batch({bucket_id: [example]}, bucket_id): no length is checked, the
\* batch is built from the first encoder_size / decoder_size positions
GetBatchCall ==
    /\ pc = "get_batch"
    /\ \E bid \in 0..(Len(_buckets) - 1) : \E example \in AnyExamples :
          /\ bucket_id' = bid
          /\ chosen' = <<example>>
          /\ batch' = get_batch(_buckets, bid, 1, chosen')
    /\ pc' = "step"
    /\ step_result' = ""
    /\ UNCHANGED <<translations, mode, _buckets, max_size, counter, source_ids, target_ids,
                   data_set, random_number_01>>
    /\ UNCHANGED <<steps_per_checkpoint, steps_per_validation, steps_verbosity,
                   lr_rate_patience, early_stop_patience, learning_rate_decay_factor,
                   learning_rate, current_step, loss, previous_losses, dev_set,
                   total_eval_loss, avg_loss, saves, lr_checks, es_checks, validations,
                   evaluated, eval_losses, forward_only, printed, step_losses>>
    /\ UNCHANGED bvars

\* step(session, encoder_inputs, encoder_inputs_r, decoder_inputs,
\* target_weights, bucket_id, forward_only)
StepCall ==
    /\ pc = "step"
    /\ \E bid \in 0..(Len(_buckets) - 1) :
       \E cut \in {"none", "encoder_inputs", "decoder_inputs", "target_weights"} :
          /\ bucket_id' = bid
          /\ batch' = Tamper(batch, cut)
          /\ step_result' = step(_buckets, bid, batch')
    /\ pc' = "get_batch"
    /\ UNCHANGED <<translations, mode, _buckets, max_size, counter, source_ids, target_ids,
                   data_set, random_number_01, chosen>>
    /\ UNCHANGED <<steps_per_checkpoint, steps_per_validation, steps_verbosity,
                   lr_rate_patience, early_stop_patience, learning_rate_decay_factor,
                   learning_rate, current_step, loss, previous_losses, dev_set,
                   total_eval_loss, avg_loss, saves, lr_checks, es_checks, validations,
                   evaluated, eval_losses, forward_only, printed, step_losses>>
    /\ UNCHANGED bvars

BatchNext ==
    \/ GetBatchCall
    \/ StepCall

SpecBatch == BatchInit /\ [][BatchNext]_vars

(***************************************************************************)
(* Properties of read_data, get_batch and the bucket draw.                 *)
(***************************************************************************)
\* column b of a batch-major array: the sequence of one example
Column(rows, b) == [l \in 1..Len(rows) |-> rows[l][b]]

RECURSIVE StripTrailingPad(_)
StripTrailingPad(s) ==
    IF s # <<>> /\ s[Len(s)] = PAD_ID THEN StripTrailingPad(SubSeq(s, 1, Len(s) - 1))
    ELSE s

\* number of examples in buckets 1..i of the data set
Cumulative(i) == SumSeq([x \in 1..i |-> Len(data_set[x])])

\* train(): the batch of the state is the one get_batch returned last, for
\* the bucket bucket_id, from train_set (model.step with forward_only
\* False) or from dev_set (forward_only True)
BatchBuilt ==
    /\ mode = "train"
    /\ pc \in {"checkpoint", "validation", "EarlyStopped", "train"}
    /\ batch # NoBatch

Sampled == IF forward_only THEN dev_set ELSE data_set

\* C1: every pair read by read_data is appended to exactly the lowest-index
\* bucket i with len(source) < maxSourceLen_i and len(target) + 1 <
\* maxTargetLen_i (target length before EOS is appended), every other bucket
\* is left as it was, and the pair is dropped when no bucket qualifies.
C1_ReadDataLowestBucket ==
    [][(pc = "read_data" /\ counter' = counter + 1) =>
        LET len_source == Len(source_ids')
            len_target == Len(target_ids') - 1
            fits == {b \in 1..Len(_buckets) :
                        len_source < _buckets[b][1] /\ len_target + 1 < _buckets[b][2]}
            example == <<source_ids', Reverse(source_ids'), target_ids'>>
        IN  /\ target_ids'[Len(target_ids')] = EOS_ID
            /\ pc' = "read_data"
            /\ \A b \in 1..Len(_buckets) :
                  data_set'[b] = IF fits # {} /\ b = SetMin(fits)
                                 THEN Append(data_set[b], example)
                                 ELSE data_set[b]]_vars

\* C1 witness: after two lines, one pair sits in a bucket other than the
\* first (the first did not fit it) and the other pair was dropped.
C1_Witness ==
    /\ counter = 2
    /\ \E b \in 2..Len(_buckets) : Len(data_set[b]) = 1
    /\ train_total_size(data_set) = 1

\* C2: a batch built for bucket (E, D) with batch size B has E encoder rows
\* and E reversed-encoder rows of length B, D decoder rows and D weight rows
\* of length B, and its last weight row is all zero.
C2_BatchShape ==
    BatchBuilt =>
        LET E == _buckets[bucket_id + 1][1]
            D == _buckets[bucket_id + 1][2]
            B == BatchSizeOf(mode)
        IN  /\ Len(batch.encoder_inputs) = E
            /\ Len(batch.encoder_inputs_r) = E
            /\ Len(batch.decoder_inputs) = D
            /\ Len(batch.target_weights) = D
            /\ \A l \in 1..E : /\ Len(batch.encoder_inputs[l]) = B
                               /\ Len(batch.encoder_inputs_r[l]) = B
            /\ \A l \in 1..D : /\ Len(batch.decoder_inputs[l]) = B
                               /\ Len(batch.target_weights[l]) = B
            /\ \A b \in 1..B : batch.target_weights[D][b] = 0

\* C2 witness: a two-column batch of two different examples.
C2_Witness ==
    /\ BatchBuilt
    /\ Len(chosen) = 2
    /\ chosen[1] # chosen[2]

\* C3: targetWeights[t][b] is 0 iff t is the last timestep or the padded
\* decoder sequence of example b (GO, the target ids, then PAD_ID) holds
\* PAD_ID at position t + 1, and is 1 otherwise; also when decLen is 1.
C3_TargetWeights ==
    (mode = "batch" /\ pc = "step") =>
        LET D == _buckets[bucket_id + 1][2]
        IN  \A b \in 1..Len(chosen) : \A l \in 1..D :
              LET target_ids_b == chosen[b][3]
                  \* position l of GO + target + padding (0-based) is target[l]
                  pad_next == \/ l > Len(target_ids_b)
                              \/ target_ids_b[l] = PAD_ID
                  zero == (l = D) \/ pad_next
              IN  /\ batch.target_weights[l][b] = IF zero THEN 0 ELSE 1
                  /\ l < D => (pad_next <=> batch.decoder_inputs[l + 1][b] = PAD_ID)

\* C3 witness: a batch whose target holds PAD_ID at its start: weight 0 at
\* that timestep, weight 1 at the next one.
C3_Witness ==
    /\ mode = "batch"
    /\ pc = "step"
    /\ Len(batch.target_weights) >= 3
    /\ batch.target_weights[1][1] = 0
    /\ batch.target_weights[2][1] = 1

\* C3, the case decLen = 1: a batch of one weight row, which is zero.
C3_WitnessDecLenOne ==
    /\ mode = "batch"
    /\ pc = "step"
    /\ batch.target_weights = << <<0>> >>

\* C4: for a sampled example of read_data without PAD_ID among its ids,
\* stripping the trailing PAD_ID of its encoder column gives sourceIds, of
\* its reversed-encoder column the reverse of sourceIds, and of its decoder
\* column, less the leading GO_ID, the targetIds with their trailing EOS.
C4_PaddingRoundTrip ==
    BatchBuilt =>
        \A b \in 1..Len(chosen) :
            LET sourceIds == chosen[b][1]
                targetIds == chosen[b][3]
                dec == StripTrailingPad(Column(batch.decoder_inputs, b))
            IN  /\ \E n \in 1..Len(Sampled[bucket_id + 1]) :
                       Sampled[bucket_id + 1][n] = chosen[b]
                /\ (PAD_ID \notin Range(sourceIds) \cup Range(targetIds)) =>
                       /\ StripTrailingPad(Column(batch.encoder_inputs, b)) = sourceIds
                       /\ StripTrailingPad(Column(batch.encoder_inputs_r, b))
                             = Reverse(sourceIds)
                       /\ dec # <<>>
                       /\ dec[1] = GO_ID
                       /\ Tail(dec) = targetIds
                       /\ targetIds[Len(targetIds)] = EOS_ID

\* C4 witness: a batch column of a PAD-free example with two different
\* source words, shorter than its bucket (so both columns are padded).
C4_Witness ==
    /\ BatchBuilt
    /\ \E b \in 1..Len(chosen) :
          /\ Len(chosen[b][1]) = 2
          /\ chosen[b][1][1] # chosen[b][1][2]
          /\ PAD_ID \notin Range(chosen[b][3])
          /\ batch.encoder_inputs[3][b] = PAD_ID
          /\ batch.decoder_inputs[_buckets[bucket_id + 1][2]][b] = PAD_ID

\* C5: with N > 0 examples the training draw r = j / DrawDen selects the
\* smallest bucket whose cumulative fraction exceeds r, i.e. the bucket i
\* with (n_0+..+n_(i-1))/N <= r < (n_0+..+n_i)/N, an interval of length
\* n_i/N; the bucket selected is never empty and the selection never fails.
C5_Step ==
    (mode = "train" /\ pc = "train") =>
        LET i == bucket_id' + 1
            N == Cumulative(Len(data_set))
            r == random_number_01'
        IN  /\ pc' = "checkpoint"
            /\ N > 0
            /\ i \in 1..Len(data_set)
            /\ Cumulative(i) * DrawDen > r * N
            /\ \A x \in 1..(i - 1) : ~(Cumulative(x) * DrawDen > r * N)
            /\ Cumulative(i - 1) * DrawDen <= r * N
            /\ Len(data_set[i]) > 0
            /\ \A b \in 1..Len(chosen') :
                  \E n \in 1..Len(data_set[i]) : chosen'[b] = data_set[i][n]

C5_BucketDraw == [][C5_Step]_vars

\* C5 witness: populations [1, 0, 1]; the draw picked the last bucket,
\* stepping over the empty one.
C5_Witness ==
    /\ pc = "checkpoint"
    /\ Len(data_set) = 3
    /\ Len(data_set[1]) = 1 /\ Len(data_set[2]) = 0 /\ Len(data_set[3]) = 1
    /\ bucket_id = 2

(***************************************************************************)
(* Properties of gen_sample.                                               *)
(***************************************************************************)
BeamDone == bpc = "done"

NoEarlierEos(s) == \A i \in 1..(Len(s) - 1) : s[i] # 0

\* C6: with k = 1 the search is greedy decoding: every token selected is a
\* most probable one of the row f_next returned for the hypothesis, and the
\* sequence returned is that greedy sequence cut after the first word 0 or
\* at maxlen tokens, with the score of its own tokens.
C6_BeamOneIsGreedy ==
    (k = 1) =>
        /\ \A i \in 1..Len(hyp_greedy) : hyp_greedy[i]
        /\ \A i \in 1..Len(sample_greedy) : sample_greedy[i]
        /\ live_k + dead_k = 1
        /\ BeamDone =>
              /\ Len(sample) = 1
              /\ Len(sample[1]) \in 1..maxlen
              /\ NoEarlierEos(sample[1])
              /\ sample[1][Len(sample[1])] = 0 \/ Len(sample[1]) = maxlen
              /\ sample_score[1] = sample_nll[1]

\* C6 witness: k = 1, the greedy sequence was cut at its first word 0
\* before maxlen.
C6_Witness ==
    /\ BeamDone
    /\ k = 1
    /\ maxlen = 3
    /\ Len(sample[1]) = 2
    /\ sample[1][2] = 0

\* C7: the search ends after at most maxlen calls of f_next: every step
\* of the function is a call that counts towards maxlen or the return, and
\* the function can always go on until it has returned; when no hypothesis
\* ended with word 0 the maxlen calls are used up and the result is the
\* list of the live hypotheses, each of length maxlen.
C7_Step == ii <= maxlen /\ (ii' = ii + 1 \/ (ii' = ii /\ bpc' = "done"))

C7_State ==
    /\ ii <= maxlen
    /\ (bpc \in {"loop", "exit"}) => ENABLED BeamNext
    /\ (BeamDone /\ dead_k = 0) =>
          /\ ii = maxlen
          /\ live_k >= 1
          /\ sample = hyp_samples
          /\ sample_score = hyp_scores
          /\ \A i \in 1..Len(sample) :
                Len(sample[i]) = maxlen /\ sample[i][maxlen] # 0

C7_BeamTerminates == [](bpc # "idle" => C7_State) /\ [][C7_Step]_bvars

\* C7 witness: maxlen = 3 calls made, no hypothesis ended, two live
\* hypotheses flushed.
C7_Witness ==
    /\ BeamDone
    /\ dead_k = 0
    /\ maxlen = 3
    /\ Len(sample) = 2

\* C8: live + finished never exceeds k and never decreases; at most k
\* hypotheses are returned, each of length 1..maxlen, and exactly k when
\* the vocabulary has at least k words.
C8_State ==
    /\ live_k + dead_k <= k
    /\ Len(hyp_samples) = live_k
    /\ (~BeamDone) => Len(sample) = dead_k
    /\ BeamDone =>
          /\ Len(sample) = live_k + dead_k
          /\ Len(sample_score) = Len(sample)
          /\ \A i \in 1..Len(sample) : Len(sample[i]) \in 1..maxlen
          /\ voc_size >= k => Len(sample) = k

C8_BeamBudget ==
    [](bpc # "idle" => C8_State) /\ [][live_k' + dead_k' >= live_k + dead_k]_bvars

\* C8 witness: k = 2 hypotheses returned, one finished on the way and one
\* flushed at maxlen.
C8_Witness ==
    /\ BeamDone
    /\ k = 2
    /\ dead_k = 1
    /\ live_k = 1
    /\ Len(sample) = 2

\* C9: the score of every hypothesis, live, finished or flushed, is the sum
\* of the -log p that f_next gave to its own tokens given its own prefix.
C9_ScoreIsOwnNegLogProb ==
    /\ \A i \in 1..Len(hyp_scores) : hyp_scores[i] = hyp_nll[i]
    /\ \A i \in 1..Len(sample_score) : sample_score[i] = sample_nll[i]

\* C10: the candidates kept at a step are the lowest-score ones, equal
\* scores decided for the lower flattened index, listed in that order.
C10_StableLowestKept == ranks_flat = ranks_stable

(***************************************************************************)
(* Properties of the training scheduler.                                   *)
(***************************************************************************)
\* the positions of the last n entries of a history h (all when n > Len(h))
LastPositions(h, n) == {i \in 1..Len(h) : i > Len(h) - n}

\* a <= b for fractions <<num, den>> with positive denominators
FracLeq(a, b) == a[1] * b[2] <= b[1] * a[2]

\* C11: the learning rate changes only in the checkpoint block of a step
\* whose count is a multiple of steps_per_checkpoint, at most once per such
\* step, and exactly when the history recorded before this checkpoint has at
\* least lr_rate_patience entries and the interval loss is strictly greater
\* than each of the last lr_rate_patience entries; the change multiplies
\* the rate by the decay factor, so with a factor <= 1 it never increases.
C11_Step ==
    LET due == pc = "checkpoint" /\ current_step % steps_per_checkpoint = 0
        worse == /\ Len(previous_losses) >= lr_rate_patience
                 /\ \A i \in LastPositions(previous_losses, lr_rate_patience) :
                       loss > previous_losses[i]
        f == learning_rate_decay_factor
    IN  /\ (due /\ worse) =>
              /\ learning_rate'[1] * learning_rate[2] * f[2]
                    = learning_rate[1] * f[1] * learning_rate'[2]
              /\ learning_rate' # learning_rate
              /\ lr_checks' = lr_checks + 1
        /\ ~(due /\ worse) => learning_rate' = learning_rate
        /\ FracLeq(f, <<1, 1>>) => FracLeq(learning_rate', learning_rate)

C11_LearningRateDecay ==
    /\ [](mode = "train" => lr_checks <= current_step \div steps_per_checkpoint)
    /\ [][C11_Step]_vars

\* C11 witness: three checkpoints passed; the rate was decayed at the
\* second one and left alone at the third, whose loss equalled the last one.
C11_Witness ==
    /\ lr_rate_patience = 1
    /\ previous_losses = <<0, 1, 1>>
    /\ learning_rate = <<99, 200>>

\* C12: the early-stop check compares the accumulator after its reset to 0
\* with the history: the loop stops at a checkpoint step iff the history
\* (with this interval's entry) has at least early_stop_patience entries and
\* each of its last early_stop_patience entries is negative; when every
\* step loss is >= 0 the loop never stops.
C12_Step ==
    (pc = "checkpoint") =>
        LET stop == /\ current_step % steps_per_checkpoint = 0
                    /\ Len(previous_losses') >= early_stop_patience
                    /\ \A i \in LastPositions(previous_losses', early_stop_patience) :
                          previous_losses'[i] < 0
        IN  /\ (pc' = "EarlyStopped") <=> stop
            /\ (pc' = "EarlyStopped") => loss' = 0
            /\ (current_step % steps_per_checkpoint = 0) => loss' = 0

C12_EarlyStop ==
    /\ [](pc = "EarlyStopped" =>
             /\ current_step % steps_per_checkpoint = 0
             /\ \E i \in 1..Len(step_losses) : step_losses[i] < 0)
    /\ [][C12_Step]_vars

\* C12 witness: the early-stop check was made twice, the second time with
\* as many history entries as the patience asks for, each of them 0: the
\* reset accumulator, 0, is not greater than their maximum and the loop
\* goes on.
C12_Witness ==
    /\ pc = "validation"
    /\ early_stop_patience = 2
    /\ previous_losses = <<0, 0>>
    /\ es_checks = 2
    /\ loss = 0

\* C14: a batch is never requested from an empty bucket of the data set
\* being sampled, neither by the training draw nor by the validation pass:
\* sampling never fails with random.choice of an empty list.
C14_NoEmptyBucketSampled == (mode = "train") => pc # "IndexError"

\* C18: the save, the decay check and the early-stop check happen exactly
\* at the steps whose count is a positive multiple of steps_per_checkpoint;
\* after n completed steps the history has n div steps_per_checkpoint
\* entries, as many as there were saves; the accumulator is 0 right after a
\* checkpoint; the verbosity print changes no scheduler state.
C18_State ==
    (mode = "train") =>
        LET n == IF pc = "checkpoint" THEN current_step - 1 ELSE current_step
        IN  /\ Len(previous_losses) = n \div steps_per_checkpoint
            /\ saves = n \div steps_per_checkpoint
            /\ lr_checks = saves
            /\ es_checks = saves
            /\ (pc # "checkpoint" /\ n > 0 /\ n % steps_per_checkpoint = 0) => loss = 0

C18_Step ==
    /\ (saves' # saves \/ lr_checks' # lr_checks \/ es_checks' # es_checks
          \/ previous_losses' # previous_losses) =>
          /\ pc = "checkpoint"
          /\ current_step > 0
          /\ current_step % steps_per_checkpoint = 0
          /\ saves' = saves + 1
          /\ lr_checks' = lr_checks + 1
          /\ es_checks' = es_checks + 1
          /\ loss' = 0
    /\ (pc = "train" /\ pc' = "checkpoint") =>
          /\ printed' = (current_step' % steps_verbosity = 0)
          /\ current_step' = current_step + 1
          /\ (loss' - loss) \in LossValues
          /\ UNCHANGED <<learning_rate, previous_losses, saves, lr_checks, es_checks,
                         validations, steps_per_checkpoint, steps_per_validation,
                         steps_verbosity, lr_rate_patience, early_stop_patience>>
    /\ (printed' # printed) => pc = "train"

C18_CheckpointCadence == []C18_State /\ [][C18_Step]_vars

\* C18 witness: three steps with a checkpoint every second step: one save,
\* one history entry, the accumulator holds the third step's loss, and the
\* verbosity line was printed at the third step.
C18_Witness ==
    /\ pc = "train"
    /\ current_step = 3
    /\ steps_per_checkpoint = 2
    /\ saves = 1
    /\ Len(previous_losses) = 1
    /\ loss # 0
    /\ printed

\* C19: within a step the phases come in the order Training, CheckpointDue,
\* ValidationDue, then EarlyStopped or Continuing: a validation pass runs
\* only on a step where it is due and after the checkpoint actions of that
\* step; the loop stops only after the validation test, so a validation
\* that is due on a step has run when the step is over.
C19_PhaseOrder ==
    /\ []((mode = "train" /\ pc \in {"train", "EarlyStopped"}) =>
             validations = current_step \div steps_per_validation)
    /\ [][pc' = "EarlyStopped" => pc = "validation"]_vars
    /\ [][(validations' # validations) =>
              /\ pc = "validation"
              /\ current_step % steps_per_validation = 0
              /\ saves = current_step \div steps_per_checkpoint
              /\ pc' = "train"]_vars

\* C19 witness: the second step was due for a checkpoint and for a
\* validation; the checkpoint actions ran, the early-stop check among them
\* with enough history to be decided, then the validation pass, and the
\* loop goes on.
C19_Witness ==
    /\ mode = "train"
    /\ pc = "train"
    /\ current_step = 2
    /\ steps_per_checkpoint = 2
    /\ steps_per_validation = 2
    /\ early_stop_patience = 1
    /\ saves = 1
    /\ es_checks = 1
    /\ validations = 1

\* the positions <<bucket, n>> of all examples of a data set
AllExamples(ds) == UNION {{<<b, n>> : n \in 1..Len(ds[b])} : b \in 1..Len(ds)}

\* C20: a validation pass evaluates every example of every dev bucket, in
\* forward-only mode, reports the mean of the accumulated losses, and
\* changes neither the learning rate, the history, the interval accumulator
\* nor the step counter.
C20_FullValidationPass ==
    [][(pc = "validation" /\ current_step % steps_per_validation = 0
           /\ pc' = "train") =>
          /\ evaluated' = AllExamples(dev_set)
          /\ forward_only'
          /\ total_eval_loss' = SumSeq(eval_losses')
          /\ avg_loss'[1] * Len(eval_losses') = total_eval_loss' * avg_loss'[2]
          /\ UNCHANGED <<learning_rate, previous_losses, loss, current_step>>]_vars

(***************************************************************************)
(* Further properties of gen_sample.                                       *)
(***************************************************************************)
\* the hypotheses a step builds from the live ones and the selected
\* flattened indices, in the order of selection
Extended(live, ranks, V) ==
    [idx \in 1..Len(ranks) |-> Append(live[(ranks[idx] \div V) + 1], ranks[idx] % V)]

EndsWithEos(h) == h[Len(h)] = 0

\* C17: no live hypothesis holds word 0; every hypothesis finished before
\* the final flush holds word 0 exactly once, as its last token; a step
\* puts each extended hypothesis in exactly one of live and finished; what
\* is in finished is never extended, rescored or removed, so the result is
\* the finished hypotheses in the order they finished, then the live ones.
C17_State ==
    /\ \A i \in 1..Len(hyp_samples) : 0 \notin Range(hyp_samples[i])
    /\ dead_k <= Len(sample)
    /\ \A i \in 1..dead_k :
          /\ EndsWithEos(sample[i])
          /\ NoEarlierEos(sample[i])
    /\ (~BeamDone) => Len(sample) = dead_k
    /\ BeamDone =>
          /\ SubSeq(sample, dead_k + 1, Len(sample)) = hyp_samples
          /\ SubSeq(sample_score, dead_k + 1, Len(sample_score)) = hyp_scores

C17_Step ==
    /\ Len(sample') >= Len(sample)
    /\ SubSeq(sample', 1, Len(sample)) = sample
    /\ SubSeq(sample_score', 1, Len(sample_score)) = sample_score
    /\ (ii' = ii + 1) =>
          LET new == Extended(hyp_samples, ranks_flat', voc_size)
          IN  /\ SubSeq(sample', Len(sample) + 1, Len(sample'))
                    = SelectSeq(new, LAMBDA h : EndsWithEos(h))
              /\ hyp_samples' = SelectSeq(new, LAMBDA h : ~EndsWithEos(h))

C17_LiveAndFinished == [](bpc # "idle" => C17_State) /\ [][C17_Step]_bvars

\* C17 witness: a hypothesis that finished at the second step, followed by
\* a live one flushed after the third step.
C17_Witness ==
    /\ BeamDone
    /\ Len(sample) = 2
    /\ Len(sample[1]) = 2
    /\ EndsWithEos(sample[1])
    /\ Len(sample[2]) = 3
    /\ ~EndsWithEos(sample[2])

\* C21: f_next is called exactly once per step; at every call the word
\* batch, the replicated context and the state batch have live_k rows; row
\* i of the word batch is the last word of live hypothesis i (the bos
\* indicator at the first step) and row i of the state batch is the state
\* the previous call returned for the parent of live hypothesis i (the
\* initial state at the first step).  The call of a step is made with
\* next_w and next_state as they are when the step begins, and with the
\* context the step replicates.
C21_Step ==
    IF bpc = "loop" /\ InRange(ii, maxlen)
    THEN /\ f_next_calls' = f_next_calls + 1
         /\ f_next_calls' = ii'
         /\ live_k = Len(hyp_samples)
         /\ Len(next_w) = live_k
         /\ Len(ctx') = live_k
         /\ Len(next_state) = live_k
         /\ Len(ret_state') = live_k
         /\ \A i \in 1..live_k :
               /\ ctx'[i] = ctx0[1]
               /\ next_w[i] =
                     IF ii = 0 THEN -1 ELSE hyp_samples[i][Len(hyp_samples[i])]
               /\ next_state[i] =
                     IF ii = 0 THEN <<0, 0>> ELSE ret_state[hyp_parents[i] + 1]
    ELSE f_next_calls' = f_next_calls /\ ctx' = ctx /\ ret_state' = ret_state

C21_OneCallPerStep == [][C21_Step]_vars

\* C21 witness: the third call was made for two live hypotheses, and of the
\* two hypotheses live after it the first was extended from parent 1 and
\* the second from parent 0, each carrying the state returned for its
\* parent.
C21_Witness ==
    /\ f_next_calls = 3
    /\ Len(ctx) = 2
    /\ ret_state = << <<3, 0>>, <<3, 1>> >>
    /\ hyp_parents = <<1, 0>>
    /\ next_state = << <<3, 1>>, <<3, 0>> >>
    /\ next_w = <<hyp_samples[1][3], hyp_samples[2][3]>>

(***************************************************************************)
(* Properties of the decode loops.                                         *)
(***************************************************************************)
\* C15: in both decode modes, for every sentence read from the input: a
\* sentence shorter than some bucket's source size gets the
\* smallest such bucket, is stepped and translated; a sentence not shorter
\* than the largest source size gets no bucket: ValueError leaves the loop
\* with no model step and no translation for it, and no later sentence is
\* read.
C15_Step ==
    (mode \in {"decode", "decode_file"} /\ pc = "decode") =>
        LET fits == {b \in 1..Len(_buckets) : Len(source_ids') < _buckets[b][1]}
        IN  IF fits # {}
            THEN /\ \A b \in fits : bucket_id' + 1 <= b
                 /\ bucket_id' + 1 \in fits
                 /\ Len(batch'.encoder_inputs) = _buckets[bucket_id' + 1][1]
                 /\ translations' = translations + 1
                 /\ pc' = "decode"
            ELSE /\ Len(source_ids') >= _buckets[Len(_buckets)][1]
                 /\ pc' = "ValueError"
                 /\ UNCHANGED <<bucket_id, chosen, batch, translations>>

C15_DecodeBucket ==
    /\ []((mode \in {"decode", "decode_file"} /\ pc = "ValueError") => ~ENABLED Next)
    /\ [][C15_Step]_vars

\* C15 witness, the file mode: one sentence of the file was translated, the
\* next one was as long as the largest bucket and ended the run.
C15_Witness ==
    /\ mode = "decode_file"
    /\ pc = "ValueError"
    /\ translations = 1
    /\ Len(source_ids) = _buckets[Len(_buckets)][1]

\* C15, the interactive mode: one sentence was translated, the next one
\* was as long as the largest bucket and ended the run.
C15_StdinWitness ==
    /\ mode = "decode"
    /\ pc = "ValueError"
    /\ translations = 1
    /\ Len(source_ids) = _buckets[Len(_buckets)][1]

(***************************************************************************)
(* Properties of get_batch and step on arbitrary data.                     *)
(***************************************************************************)
\* the example does not fit the bucket: GO plus target, or the source, is
\* longer than the bucket allows
Oversize(example, bucket) ==
    Len(example[3]) + 1 > bucket[2] \/ Len(example[1]) > bucket[1]

\* C13: get_batch fails with BucketOverflowError, returning no batch, when
\* a sampled example exceeds the bucket (len(target) + 1 > decoder size or
\* len(source) > encoder size); a sequence is never silently truncated.
C13_BucketOverflowError ==
    [][(pc = "get_batch" /\ Oversize(chosen'[1], _buckets[bucket_id' + 1])) =>
          /\ pc' = "BucketOverflowError"
          /\ batch' = batch]_vars

\* C16: step raises ValueError exactly when the number of encoder rows
\* differs from the bucket's encoder size or the number of decoder rows or
\* of weight rows differs from its decoder size; a batch get_batch built
\* for a bucket id is accepted by step with the same bucket id.
C16_Step ==
    (pc = "step") =>
        LET encoder_size == _buckets[bucket_id' + 1][1]
            decoder_size == _buckets[bucket_id' + 1][2]
        IN  /\ (step_result' = "ValueError") <=>
                  \/ Len(batch'.encoder_inputs) # encoder_size
                  \/ Len(batch'.decoder_inputs) # decoder_size
                  \/ Len(batch'.target_weights) # decoder_size
            /\ step_result' \in {"ValueError", "ok"}
            /\ (batch' = batch /\ bucket_id' = bucket_id) => step_result' = "ok"

C16_StepSizeCheck == [][C16_Step]_vars

\* C16 witness: step refused lists of which only target_weights had the
\* wrong length.
C16_Witness ==
    /\ mode = "batch"
    /\ step_result = "ValueError"
    /\ Len(batch.encoder_inputs) = _buckets[bucket_id + 1][1]
    /\ Len(batch.decoder_inputs) = _buckets[bucket_id + 1][2]
    /\ Len(batch.target_weights) = _buckets[bucket_id + 1][2] - 1

\* C16 witness of the second part: a batch built from an oversize example
\* was accepted by step for the bucket it was built for.
C16_WitnessAccepted ==
    /\ mode = "batch"
    /\ step_result = "ok"
    /\ Oversize(chosen[1], _buckets[bucket_id + 1])

====
